---------------------------- MODULE Spec2Model ----------------------------
(***************************************************************************)
(* A model of the hyperspace sampler (sampler.py, config.py).              *)
(*                                                                         *)
(* Numbers.  The program computes with floating-point reals.  The model    *)
(* computes with exact rationals <<n, d>> (d > 0, lowest terms); the only  *)
(* irrational operation, the square root of np.std, is taken to a fixed    *)
(* precision (SqrtPrec).  A coordinate is a rational k/Grid, so that       *)
(* np.mod(x, 1) is the remainder modulo Grid of the numerator.             *)
(*                                                                         *)
(* Arrays keep Python's indices: an array of length n is a function on     *)
(* 0..n-1.  A point (a row of the points array) is a sequence of           *)
(* coordinates, the points array a sequence of points.                     *)
(***************************************************************************)
EXTENDS Integers, Sequences, FiniteSets, TLC

(***************************************************************************)
(* Bounds of the model.                                                    *)
(***************************************************************************)
\* coordinates are multiples of 1/Grid
Grid == 3
\* the oracle's dimension count is in 1..MaxDim
MaxDim == 1
\* the requested ensemble size is in 0..MaxResults
MaxResults == 2
\* config.MAX_STEPS is in 0..MaxMaxSteps
MaxMaxSteps == 6
\* config.CHECK_STEPS is in 1..MaxCheck
MaxCheck == 2
\* np.sqrt is exact to 1/SqrtPrec of the unit of its argument's root
SqrtPrec == 4
\* the arrays array_stable is tried on have up to MaxLen entries
MaxLen == 5
\* modify_step_size is tried in sequences of up to MaxCtlCalls calls
MaxCtlCalls == 2

(***************************************************************************)
(* Rational arithmetic.                                                    *)
(***************************************************************************)
RECURSIVE GCD(_, _)
GCD(a, b) == IF b = 0 THEN a ELSE GCD(b, a % b)

IAbs(x) == IF x < 0 THEN -x ELSE x

\* the rational n/d in lowest terms with a positive denominator (d # 0)
Rat(n, d) ==
    LET g == GCD(IAbs(n), IAbs(d))
        s == IF d < 0 THEN -1 ELSE 1
    IN  <<(s * n) \div g, (s * d) \div g>>

Zero == <<0, 1>>
One == <<1, 1>>

RAdd(x, y) == Rat(x[1] * y[2] + y[1] * x[2], x[2] * y[2])
RSub(x, y) == Rat(x[1] * y[2] - y[1] * x[2], x[2] * y[2])
RMul(x, y) == Rat(x[1] * y[1], x[2] * y[2])
\* x / y for y # 0
RDiv(x, y) == Rat(x[1] * y[2], x[2] * y[1])
RLt(x, y) == x[1] * y[2] < y[1] * x[2]
RLe(x, y) == x[1] * y[2] <= y[1] * x[2]
RAbs(x) == <<IAbs(x[1]), x[2]>>

RECURSIVE RSumTo(_, _)
RSumTo(s, k) == IF k = 0 THEN Zero ELSE RAdd(RSumTo(s, k - 1), s[k])
\* the sum of a sequence of rationals
RSum(s) == RSumTo(s, Len(s))

\* the largest k in lo..hi with k*k <= n (lo*lo <= n < (hi+1)*(hi+1))
RECURSIVE ISqrtIn(_, _, _)
ISqrtIn(n, lo, hi) ==
    IF lo >= hi THEN lo
    ELSE LET mid == (lo + hi + 1) \div 2
         IN  IF mid * mid <= n THEN ISqrtIn(n, mid, hi) ELSE ISqrtIn(n, lo, mid - 1)
ISqrt(n) == ISqrtIn(n, 0, n)

\* np.sqrt of a rational x >= 0, rounded down to a multiple of
\* 1/(x[2]*SqrtPrec): sqrt(n/d) = sqrt(n*d)/d
np_sqrt(x) == Rat(ISqrt(x[1] * x[2] * SqrtPrec * SqrtPrec), x[2] * SqrtPrec)

\* np.mean of a non-empty sequence of rationals
np_mean(s) == RDiv(RSum(s), <<Len(s), 1>>)

\* the population variance of a non-empty sequence of rationals:
\* mean(|x - mean(x)|^2), what np.std takes the root of
np_var(s) ==
    LET m == np_mean(s)
    IN  np_mean([k \in 1..Len(s) |-> RMul(RSub(s[k], m), RSub(s[k], m))])

\* np.std of a non-empty sequence of rationals
np_std(s) == np_sqrt(np_var(s))

\* A[a:b] of an array A for 0 <= a <= b <= len(A), as a sequence
Slice(A, a, b) == [k \in 1..(b - a) |-> A[a + k - 1]]

\* len(A) of an array
ALen(A) == Cardinality(DOMAIN A)

(***************************************************************************)
(* Program constants (config.py) and the inputs of a run.                  *)
(***************************************************************************)
\* config.MIN_ACCEPT_RATE = 0.2
MIN_ACCEPT_RATE == <<1, 5>>
\* config.MAX_ACCEPT_RATE = 0.8
MAX_ACCEPT_RATE == <<4, 5>>
\* config.TOLERANCE = 0.01
TOLERANCE == <<1, 100>>

\* values of config.STEP_SIZE_FACTOR in a run: 0.5 as shipped, 1, and the
\* misconfiguration 2 (> 1)
Factors == {<<1, 2>>, <<1, 1>>, <<2, 1>>}
\* values of config.INIT_STEP_SIZE, in (0,1): 0.01 as shipped, and 0.3
InitStepSizes == {<<1, 100>>, <<3, 10>>}

\* the values config.py may be edited to
Configs ==
    [MAX_STEPS : 0..MaxMaxSteps, CHECK_STEPS : 1..MaxCheck,
     STEP_SIZE_FACTOR : Factors, INIT_STEP_SIZE : InitStepSizes]

\* the coordinates of the example points of the model, in units of 1/Grid:
\* 0.0, and 1.0, which is outside the unit hypercube [0,1)
Coords == {0, Grid}
\* the draws of np.random.normal with a positive scale, in units of 1/Grid
\* (the Gaussian's support is all reals, whatever the scale)
Steps == {-1, 1}

\* the kinds of constraint sets of the model: no constraint; every first
\* coordinate at most 1/Grid; only the example point; a constraint that
\* refers to an undefined term or an index out of range
OracleKinds == {"all", "band", "isolated", "malformed"}

\* sequences over S of a length in lo..hi
SeqsOf(S, lo, hi) == UNION {[1..n -> S] : n \in lo..hi}

\* the Constraint objects of the model: the example has at most ndim
\* coordinates
Hyperspaces ==
    {h \in [ndim : 1..MaxDim, example : SeqsOf(Coords, 0, MaxDim),
            kind : OracleKinds] : Len(h.example) <= h.ndim}

\* what Constraint(input_file) does: return an object or raise.  "cut": it
\* returns an object, and the example line of the file had more coordinates
\* than the dimension count, of which the object's example keeps the first
\* ndim (its example is a vector of length ndim)
FileOutcomes == {"ok", "cut", "FileNotFoundError", "ValueError", "SyntaxError"}


VARIABLES
    pc,          \* where main is
    file,        \* the outcome of Constraint(input_file)
    hyperspace,  \* the Constraint object
    n_results,   \* the third command line argument
    config,      \* the module config
    points,      \* the ensemble
    step_size,   \* run_sampler's step_size
    i,           \* run_sampler's loop index
    pos_mean,    \* run_sampler's history of the coordinate means
    pos_std,     \* run_sampler's history of the coordinate standard deviations
    accept_rate, \* run_sampler's history of the acceptance rates
    step_mod,    \* run_sampler's step_mod
    stable,      \* the value of sampler_stable in the last evaluation
    calls,       \* the number of calls of run_step
    printed,     \* the messages written so far
    result,      \* what run_sampler returned
    probe        \* the call under test of the function specifications

vars ==
    <<pc, file, hyperspace, n_results, config, points, step_size, i, pos_mean,
      pos_std, accept_rate, step_mod, stable, calls, printed, result, probe>>

\* the value of i before the for loop binds it
Unbound == -1

\* Constraint(input_file) raised
Raised == file \in {"FileNotFoundError", "ValueError", "SyntaxError"}

(***************************************************************************)
(* The constraint oracle (constraints.Constraint, not part of the source   *)
(* given: modelled from its use and from the specification).               *)
(***************************************************************************)
\* hyperspace.apply(x) raises IndexError or NameError
apply_raises(h, x) == h.kind = "malformed"

\* hyperspace.apply(x), for a point x of at least h.ndim coordinates
apply(h, x) ==
    CASE h.kind = "all" -> TRUE
      [] h.kind = "band" -> \A d \in 1..h.ndim : x[d] <= 1
      [] h.kind = "isolated" -> \A d \in 1..h.ndim : x[d] = h.example[d]
      [] OTHER -> FALSE

(***************************************************************************)
(* The functions of sampler.py.                                            *)
(***************************************************************************)
\* np.random.normal(scale=step_size): the values one draw may take
normal(scale) == IF scale = Zero THEN {0} ELSE Steps

\* np.mod(points[k] + step, 1)
new_vec(pts, draw, k) ==
    [d \in 1..Len(pts[k]) |-> (pts[k][d] + draw[k][d]) % Grid]

\* run_step without its test of the constraints: every candidate is taken
run_step_unchecked(pts, h, draw) ==
    [points |-> [k \in 1..Len(pts) |-> new_vec(pts, draw, k)],
     acceptance_rate |-> One]

\* run_step counting every chain as a valid move, accepted or not
run_step_counting_all(pts, h, draw) ==
    LET npoints == Len(pts)
        valid == {k \in 1..npoints : apply(h, new_vec(pts, draw, k))}
    IN  [points |-> [k \in 1..npoints |->
                        IF k \in valid THEN new_vec(pts, draw, k) ELSE pts[k]],
         acceptance_rate |-> Rat(npoints, npoints)]

\* run_step writing every candidate to its chain's slot, accepted or not,
\* and counting the accepted ones
run_step_always_moving(pts, h, draw) ==
    LET npoints == Len(pts)
        valid == {k \in 1..npoints : apply(h, new_vec(pts, draw, k))}
    IN  [points |-> [k \in 1..npoints |-> new_vec(pts, draw, k)],
         acceptance_rate |-> Rat(Cardinality(valid), npoints)]

\* run_step, given the draws of np.random.normal of its loop
run_step(pts, h, draw) ==
    LET npoints == Len(pts)
        valid == {k \in 1..npoints : apply(h, new_vec(pts, draw, k))}
    IN  [points |-> [k \in 1..npoints |->
                        IF k \in valid THEN new_vec(pts, draw, k) ELSE pts[k]],
         acceptance_rate |-> Rat(Cardinality(valid), npoints)]

\* column d of the points array, as rationals
Column(pts, d) == [k \in 1..Len(pts) |-> Rat(pts[k][d], Grid)]

calc_pos_mean(pts) == [d \in 1..Len(pts[1]) |-> np_mean(Column(pts, d))]

calc_std_mean(pts) == [d \in 1..Len(pts[1]) |-> np_std(Column(pts, d))]

\* evaluate_sampler one step ahead of the multiples of CHECK_STEPS
evaluate_sampler_ahead(index) ==
    (index + 1) % config.CHECK_STEPS = 0 /\ index > 0

evaluate_sampler(index) == index % config.CHECK_STEPS = 0 /\ index > 0

\* the indices A[a:b] reads of an array of n entries: a negative bound counts
\* from the end of the array, and a bound beyond an end is cut to it
SliceStart(n, a) == IF a < 0 THEN (IF a + n < 0 THEN 0 ELSE a + n)
                    ELSE (IF a > n THEN n ELSE a)
SliceIndices(n, w) == {k \in 0..(n - 1) : SliceStart(n, w[1]) <= k /\ k < SliceStart(n, w[2])}

\* the bounds <<a, b>> of the slice [index-num_steps+1 : index+1] one step
\* too far back
RecentWindow_shifted(index, num_steps) == <<index - num_steps, index>>

\* the bounds <<a, b>> of the slice [index-num_steps+1 : index+1], the window
\* A1 of array_stable and the window of modify_step_size
RecentWindow(index, num_steps) == <<index - num_steps + 1, index + 1>>

\* the bounds <<a, b>> of the slice [index-2*num_steps+1 : index-num_steps+1],
\* the window A2 of array_stable
PreviousWindow(index, num_steps) ==
    <<index - 2 * num_steps + 1, index - num_steps + 1>>

\* array_stable with a first test that lets one index too many through
array_stable_early(index, num_steps, A) ==
    IF index < 2 * num_steps - 1 \/ index > ALen(A) - 1 THEN FALSE
    ELSE LET A1 == Slice(A, index - num_steps + 1, index + 1)
             A2 == Slice(A, index - 2 * num_steps + 1, index - num_steps + 1)
             val1 == np_mean(A1)
             val2 == np_mean(A2)
             std1 == np_std(A1)
             std2 == np_std(A2)
             check1 == RLt(RAbs(RSub(val1, val2)), TOLERANCE)
             check2 == RLt(RAbs(RSub(val1, val2)),
                           np_sqrt(RAdd(RMul(std1, std1), RMul(std2, std2))))
         IN  check1 /\ check2

array_stable(index, num_steps, A) ==
    IF index < 2 * num_steps \/ index > ALen(A) - 1 THEN FALSE
    ELSE LET w1 == RecentWindow(index, num_steps)
             w2 == PreviousWindow(index, num_steps)
             A1 == Slice(A, w1[1], w1[2])
             A2 == Slice(A, w2[1], w2[2])
             val1 == np_mean(A1)
             val2 == np_mean(A2)
             std1 == np_std(A1)
             std2 == np_std(A2)
             check1 == RLt(RAbs(RSub(val1, val2)), TOLERANCE)
             check2 == RLt(RAbs(RSub(val1, val2)),
                           np_sqrt(RAdd(RMul(std1, std1), RMul(std2, std2))))
         IN  check1 /\ check2

\* pos_mean.T[d]: the history of coordinate d
Transposed(hist, d) == [k \in DOMAIN hist |-> hist[k][d]]

sampler_stable(index, pmean, pstd) ==
    /\ \A d \in 1..hyperspace.ndim :
          array_stable(index, config.CHECK_STEPS, Transposed(pmean, d))
    /\ \A d \in 1..hyperspace.ndim :
          array_stable(index, config.CHECK_STEPS, Transposed(pstd, d))

\* the factor of modify_step_size without the test factor > 1
EffectiveFactor_unbounded(f) == IF RLe(f, Zero) THEN One ELSE f

\* the factor modify_step_size uses: 1 in place of one outside (0,1]
EffectiveFactor(f) == IF RLe(f, Zero) \/ RLt(One, f) THEN One ELSE f

\* modify_step_size growing the step size without the test that the result
\* is below 1
modify_step_size_unbounded(index, size, rates) ==
    LET check_steps == config.CHECK_STEPS
        factor == EffectiveFactor(config.STEP_SIZE_FACTOR)
    IN  IF index < check_steps
        THEN [step_size |-> size, step_mod |-> FALSE, msg |-> ""]
        ELSE LET recent_accept_rate ==
                     np_mean(Slice(rates, index - check_steps + 1, index + 1))
             IN  IF RLt(recent_accept_rate, MIN_ACCEPT_RATE)
                 THEN [step_size |-> RMul(size, factor), step_mod |-> TRUE,
                       msg |-> "Step size made smaller"]
                 ELSE IF RLt(MAX_ACCEPT_RATE, recent_accept_rate)
                 THEN [step_size |-> RDiv(size, factor), step_mod |-> TRUE,
                       msg |-> "Step size made bigger"]
                 ELSE [step_size |-> size, step_mod |-> FALSE, msg |-> ""]

\* modify_step_size growing the step size when the result is at most 1
modify_step_size_upto(index, size, rates) ==
    LET check_steps == config.CHECK_STEPS
        factor == EffectiveFactor(config.STEP_SIZE_FACTOR)
    IN  IF index < check_steps
        THEN [step_size |-> size, step_mod |-> FALSE, msg |-> ""]
        ELSE LET recent_accept_rate ==
                     np_mean(Slice(rates, index - check_steps + 1, index + 1))
             IN  IF RLt(recent_accept_rate, MIN_ACCEPT_RATE)
                 THEN [step_size |-> RMul(size, factor), step_mod |-> TRUE,
                       msg |-> "Step size made smaller"]
                 ELSE IF /\ RLt(MAX_ACCEPT_RATE, recent_accept_rate)
                         /\ RLe(RDiv(size, factor), One)
                 THEN [step_size |-> RDiv(size, factor), step_mod |-> TRUE,
                       msg |-> "Step size made bigger"]
                 ELSE [step_size |-> size, step_mod |-> FALSE, msg |-> ""]

\* modify_step_size shrinking the step size when the rate is at most
\* MIN_ACCEPT_RATE and reporting a shrink only if the value changed
modify_step_size_quiet(index, size, rates) ==
    LET check_steps == config.CHECK_STEPS
        factor == EffectiveFactor(config.STEP_SIZE_FACTOR)
    IN  IF index < check_steps
        THEN [step_size |-> size, step_mod |-> FALSE, msg |-> ""]
        ELSE LET recent_accept_rate ==
                     np_mean(Slice(rates, index - check_steps + 1, index + 1))
             IN  IF RLt(recent_accept_rate, MIN_ACCEPT_RATE)
                 THEN [step_size |-> RMul(size, factor),
                       step_mod |-> RMul(size, factor) # size,
                       msg |-> "Step size made smaller"]
                 ELSE IF /\ RLt(MAX_ACCEPT_RATE, recent_accept_rate)
                         /\ RLt(RDiv(size, factor), One)
                 THEN [step_size |-> RDiv(size, factor), step_mod |-> TRUE,
                       msg |-> "Step size made bigger"]
                 ELSE [step_size |-> size, step_mod |-> FALSE, msg |-> ""]

\* modify_step_size: what it returns, and the message it prints ("" if none)
modify_step_size(index, size, rates) ==
    LET check_steps == config.CHECK_STEPS
        factor == EffectiveFactor(config.STEP_SIZE_FACTOR)
    IN  IF index < check_steps
        THEN [step_size |-> size, step_mod |-> FALSE, msg |-> ""]
        ELSE LET w == RecentWindow(index, check_steps)
                 recent_accept_rate == np_mean(Slice(rates, w[1], w[2]))
             IN  IF RLt(recent_accept_rate, MIN_ACCEPT_RATE)
                 THEN [step_size |-> RMul(size, factor), step_mod |-> TRUE,
                       msg |-> "Step size made smaller"]
                 ELSE IF /\ RLt(MAX_ACCEPT_RATE, recent_accept_rate)
                         /\ RLt(RDiv(size, factor), One)
                 THEN [step_size |-> RDiv(size, factor), step_mod |-> TRUE,
                       msg |-> "Step size made bigger"]
                 ELSE [step_size |-> size, step_mod |-> FALSE, msg |-> ""]

\* the indices of accept_rate modify_step_size(index, _, accept_rate) reads
ControllerWindow(index) ==
    IF index < config.CHECK_STEPS THEN {}
    ELSE SliceIndices(ALen(accept_rate), RecentWindow(index, config.CHECK_STEPS))

\* the indices of A that array_stable(index, num_steps, A) reads as A1 and
\* as A2
MonitorWindows(index, num_steps, A) ==
    IF index < 2 * num_steps \/ index > ALen(A) - 1 THEN <<{}, {}>>
    ELSE <<SliceIndices(ALen(A), RecentWindow(index, num_steps)),
           SliceIndices(ALen(A), PreviousWindow(index, num_steps))>>

\* make_points_array without the correction of n < 1
make_points_array_uncorrected(vec, n) == [k \in 1..n |-> vec]

\* make_points_array: n copies of vec, one copy if n < 1
make_points_array(vec, n) == [k \in 1..(IF n < 1 THEN 1 ELSE n) |-> vec]

\* the break taken on the stability verdict alone
ShouldStop_unguarded(is_stable, modified) == is_stable

\* the condition of the break of run_sampler's loop
ShouldStop(is_stable, modified) == is_stable /\ ~modified

\* range(max_steps) yielding one index too many
in_range_inclusive(index, max_steps) == index <= max_steps

\* for i in range(max_steps): index is an index of the loop
in_range(index, max_steps) == index < max_steps

(***************************************************************************)
(* main: the run of the program.                                           *)
(***************************************************************************)
\* an array of n zeros (np.zeros(n)) and of n rows of zeros (np.zeros((n, m)))
Zeros1(n) == [k \in 0..(n - 1) |-> Zero]
Zeros2(n, m) == [k \in 0..(n - 1) |-> [d \in 1..m |-> Zero]]

NoProbe == [fn |-> "none"]

\* the variables run_sampler has not yet bound
NotStarted ==
    /\ points = <<>>
    /\ step_size = Zero
    /\ i = Unbound
    /\ pos_mean = <<>>
    /\ pos_std = <<>>
    /\ accept_rate = <<>>
    /\ step_mod = FALSE
    /\ stable = FALSE
    /\ calls = 0
    /\ printed = {}
    /\ result = <<>>

\* the state as main starts: the command line is read (read_input), the
\* input file and config.py are what they are
Init ==
    /\ pc = "get_constraints"
    /\ file \in FileOutcomes
    /\ hyperspace \in Hyperspaces
    /\ n_results \in 0..MaxResults
    /\ config \in Configs
    /\ Raised => hyperspace = [ndim |-> 1, example |-> <<0>>, kind |-> "all"]
    /\ file = "cut" => Len(hyperspace.example) = hyperspace.ndim
    /\ file # "ok" =>
          /\ n_results = 1
          /\ config = [MAX_STEPS |-> MaxMaxSteps, CHECK_STEPS |-> 1,
                       STEP_SIZE_FACTOR |-> One, INIT_STEP_SIZE |-> <<1, 100>>]
    /\ NotStarted
    /\ probe = NoProbe

\* the message get_constraints exits with, "" if it returns
get_constraints_error ==
    CASE file = "FileNotFoundError" -> "Error: input file not found"
      [] file = "ValueError" -> "Error: input file formatted improperly"
      [] file = "SyntaxError" -> "Error: syntax error in constraints"
      [] Len(hyperspace.example) < hyperspace.ndim ->
             "Error: example point does not have enough dimensions"
      [] apply_raises(hyperspace, hyperspace.example) -> "Error: invalid constraints"
      [] ~apply(hyperspace, hyperspace.example) -> "Error: example point is invalid"
      [] OTHER -> ""

\* main: hyperspace = get_constraints(input_file)
GetConstraints ==
    /\ pc = "get_constraints"
    /\ IF get_constraints_error # ""
       THEN /\ pc' = "exit"
            /\ printed' = printed \cup {get_constraints_error}
       ELSE /\ pc' = "make_points_array"
            /\ printed' = printed
    /\ UNCHANGED <<file, hyperspace, n_results, config, points, step_size, i,
                   pos_mean, pos_std, accept_rate, step_mod, stable, calls,
                   result, probe>>

\* main: points_init = make_points_array(example, n_results), and the entry
\* of run_sampler up to its loop
MakePointsArray ==
    /\ pc = "make_points_array"
    /\ points' = make_points_array(hyperspace.example, n_results)
    /\ printed' = IF n_results < 1
                  THEN printed \cup {"Error: n_results is negative -- 1 output will be produced"}
                  ELSE printed
    /\ step_size' = config.INIT_STEP_SIZE
    /\ pos_mean' = Zeros2(config.MAX_STEPS, hyperspace.ndim)
    /\ pos_std' = Zeros2(config.MAX_STEPS, hyperspace.ndim)
    /\ accept_rate' = Zeros1(config.MAX_STEPS)
    /\ pc' = "for"
    /\ UNCHANGED <<file, hyperspace, n_results, config, i, step_mod, stable,
                   calls, result, probe>>

\* hist[index] = value with the entry before index overwritten as well
record_smeared(hist, index, value) ==
    [k \in DOMAIN hist |-> IF k = index \/ k = index - 1 THEN value ELSE hist[k]]

\* hist[index] = value, of the arrays accept_rate, pos_mean and pos_std
record(hist, index, value) == [hist EXCEPT ![index] = value]

\* the set of draws of one call of run_step: one per point and coordinate
Draws == [1..Len(points) -> [1..Len(points[1]) -> normal(step_size)]]

\* one iteration of run_sampler's loop, with index i + 1
LoopBody ==
    /\ pc = "for"
    /\ in_range(i + 1, config.MAX_STEPS)
    /\ \E draw \in Draws :
          LET index == i + 1
              step == run_step(points, hyperspace, draw)
              rates == record(accept_rate, index, step.acceptance_rate)
          IN  /\ i' = index
              /\ calls' = calls + 1
              /\ points' = step.points
              /\ accept_rate' = rates
              /\ LET pmean == record(pos_mean, index, calc_pos_mean(step.points))
                     pstd == record(pos_std, index, calc_std_mean(step.points))
                     eval == evaluate_sampler(index)
                     mod == IF eval
                            THEN modify_step_size(index, step_size, rates)
                            ELSE [step_size |-> step_size, step_mod |-> step_mod,
                                  msg |-> ""]
                     is_stable == eval /\ sampler_stable(index, pmean, pstd)
                     stop == eval /\ ShouldStop(is_stable, mod.step_mod)
                 IN  /\ pos_mean' = pmean
                     /\ pos_std' = pstd
                     /\ step_size' = mod.step_size
                     /\ step_mod' = mod.step_mod
                     /\ stable' = is_stable
                     /\ printed' =
                           printed
                           \cup (IF mod.msg # "" THEN {mod.msg} ELSE {})
                           \cup (IF stop THEN {"Sampler stopped"} ELSE {})
                     /\ pc' = IF stop THEN "after_loop" ELSE "for"
    /\ UNCHANGED <<file, hyperspace, n_results, config, result, probe>>

\* the loop ends: range(max_steps) is exhausted
LoopEnd ==
    /\ pc = "for"
    /\ ~in_range(i + 1, config.MAX_STEPS)
    /\ pc' = "after_loop"
    /\ UNCHANGED <<file, hyperspace, n_results, config, points, step_size, i,
                   pos_mean, pos_std, accept_rate, step_mod, stable, calls,
                   printed, result, probe>>

\* what follows the loop: the warning, and the return of points
AfterLoop ==
    /\ pc = "after_loop"
    /\ IF i = Unbound
       THEN \* the loop never ran: i is not defined, NameError
            /\ pc' = "crashed"
            /\ UNCHANGED <<printed, result>>
       ELSE /\ printed' = IF i = config.MAX_STEPS - 1
                          THEN printed \cup {"Warning: reached maximum number of steps"}
                          ELSE printed
            /\ result' = points
            /\ pc' = "returned"
    /\ UNCHANGED <<file, hyperspace, n_results, config, points, step_size, i,
                   pos_mean, pos_std, accept_rate, step_mod, stable, calls, probe>>

Next == GetConstraints \/ MakePointsArray \/ LoopBody \/ LoopEnd \/ AfterLoop

Spec == Init /\ [][Next]_vars

(***************************************************************************)
(* array_stable and modify_step_size on their own: the specifications      *)
(* SpecStable and SpecCtl call them on inputs drawn from bounded sets.     *)
(***************************************************************************)
\* the variables of main, left as they are before main starts
MainIdle ==
    /\ file = "ok"
    /\ hyperspace = [ndim |-> 1, example |-> <<0>>, kind |-> "all"]
    /\ n_results = 1
    /\ NotStarted

MainVars ==
    <<file, hyperspace, n_results, config, points, step_size, i, pos_mean,
      pos_std, accept_rate, step_mod, stable, calls, printed, result>>

\* the entries of the arrays array_stable is tried on
ProbeValues == {Zero, <<1, 3>>, <<2, 3>>}
\* the arrays array_stable is tried on
ProbeArrays == UNION {[0..(n - 1) -> ProbeValues] : n \in 1..MaxLen}

InitStable ==
    /\ pc = "probe"
    /\ config = [MAX_STEPS |-> MaxLen, CHECK_STEPS |-> 1,
                 STEP_SIZE_FACTOR |-> <<1, 2>>, INIT_STEP_SIZE |-> <<1, 100>>]
    /\ MainIdle
    /\ probe \in [fn : {"array_stable"}, index : 0..MaxLen,
                  num_steps : 1..MaxCheck, A : ProbeArrays, ret : {FALSE}]

\* a call of array_stable(index, num_steps, A)
ArrayStableCall ==
    /\ pc = "probe"
    /\ probe.fn = "array_stable"
    /\ probe' = [probe EXCEPT !.ret = array_stable(probe.index, probe.num_steps, probe.A)]
    /\ pc' = "probed"
    /\ UNCHANGED MainVars

SpecStable == InitStable /\ [][ArrayStableCall]_vars

\* values of config.STEP_SIZE_FACTOR: 0.5 as shipped, 1, and the
\* misconfigurations 2 (> 1) and 0 (<= 0)
CtlFactors == {<<1, 2>>, One, <<2, 1>>, Zero}
\* step sizes modify_step_size is first called with: 0.01, 0.3, 0.5, 0.6
CtlSizes == {<<1, 100>>, <<3, 10>>, <<1, 2>>, <<3, 5>>}
\* acceptance rates: 0, 1, and the two ends of the band
CtlRates == {Zero, MIN_ACCEPT_RATE, MAX_ACCEPT_RATE, One}
\* the accept_rate arrays modify_step_size(index, _, _) is tried on: the
\* entries up to index are written, those after it are the zeros of np.zeros
CtlRateArrays(index) ==
    {[k \in 0..MaxCheck |-> IF k <= index THEN a[k] ELSE Zero] :
        a \in [0..index -> CtlRates]}

InitCtl ==
    /\ pc = "probe"
    /\ config \in [MAX_STEPS : {MaxCheck + 1}, CHECK_STEPS : 1..MaxCheck,
                   STEP_SIZE_FACTOR : CtlFactors, INIT_STEP_SIZE : CtlSizes]
    /\ MainIdle
    /\ probe = [fn |-> "modify_step_size", calls |-> 0, low |-> TRUE,
                start |-> config.INIT_STEP_SIZE, index |-> 0, rate |-> Zero,
                given |-> config.INIT_STEP_SIZE,
                step_size |-> config.INIT_STEP_SIZE, step_mod |-> FALSE]

\* the average of rates[index-CHECK_STEPS+1 : index+1], for index >= CHECK_STEPS
CtlRate(index, rates) ==
    np_mean(Slice(rates, index - config.CHECK_STEPS + 1, index + 1))

\* a call of modify_step_size(index, step_size, rates) with the step size
\* the call before returned.  rate: the average of the last CHECK_STEPS
\* entries of rates (0 if index < CHECK_STEPS); low: so far every call was
\* at an index >= CHECK_STEPS with an average below MIN_ACCEPT_RATE
ModifyStepSizeCall ==
    /\ pc = "probe"
    /\ probe.fn = "modify_step_size"
    /\ probe.calls < MaxCtlCalls
    /\ \E index \in 0..MaxCheck :
          \E rates \in CtlRateArrays(index) :
             LET ret == modify_step_size(index, probe.step_size, rates)
                 rate == IF index >= config.CHECK_STEPS
                         THEN CtlRate(index, rates)
                         ELSE Zero
             IN  probe' = [fn |-> "modify_step_size",
                           calls |-> probe.calls + 1,
                           low |-> /\ probe.low
                                   /\ index >= config.CHECK_STEPS
                                   /\ RLt(rate, MIN_ACCEPT_RATE),
                           start |-> probe.start,
                           index |-> index,
                           rate |-> rate,
                           given |-> probe.step_size,
                           step_size |-> ret.step_size,
                           step_mod |-> ret.step_mod]
    /\ UNCHANGED <<pc, MainVars>>

SpecCtl == InitCtl /\ [][ModifyStepSizeCall]_vars

(***************************************************************************)
(* What the claims speak of.                                               *)
(***************************************************************************)
\* run_sampler has its ensemble: initialization is over
Sampling == pc \in {"for", "after_loop", "returned", "crashed"}

\* the run stopped as CONVERGED: the break of the loop was taken
Converged == "Sampler stopped" \in printed

\* the run was reported as EXHAUSTED: the warning was written
Exhausted == "Warning: reached maximum number of steps" \in printed

\* the average acceptance rate a check at step index reads
RecentRate(index) ==
    np_mean(Slice(accept_rate, index - config.CHECK_STEPS + 1, index + 1))

(***************************************************************************)
(* C1: in every state of a run, right after initialization and after every *)
(* call of run_step, every point of the ensemble satisfies the constraint  *)
(* oracle (start-up validation having accepted the example point).         *)
(***************************************************************************)
C1_EnsembleFeasible ==
    Sampling => \A k \in 1..Len(points) : apply(hyperspace, points[k])

\* two steps were taken, a chain has left the example point, and the last
\* step rejected the candidate of some chain
C1_Witness ==
    /\ Sampling
    /\ calls >= 2
    /\ \E k \in 1..Len(points) : points[k] # hyperspace.example
    /\ RLt(accept_rate[i], One)

(***************************************************************************)
(* C2: an iteration of the loop, with index j, stops the run as CONVERGED  *)
(* if and only if j > 0, j mod CHECK_STEPS = 0, the step size controller   *)
(* called at j reported "not modified" and the convergence monitor reports *)
(* stable at j; in every other case the run stays in the loop, and from a  *)
(* running state with i < MAX_STEPS - 1 the next step is the iteration     *)
(* with index i + 1.                                                       *)
(***************************************************************************)
C2_StopIffStableUnmodified ==
    [][/\ (pc = "for" /\ i' = i + 1) =>
            /\ pc' \in {"for", "after_loop"}
            /\ pc' = "after_loop" <=>
                  /\ i' > 0
                  /\ i' % config.CHECK_STEPS = 0
                  /\ ~step_mod'
                  /\ sampler_stable(i', pos_mean', pos_std')
       /\ (pc = "for" /\ i < config.MAX_STEPS - 1) => i' = i + 1]_vars

\* a run that stopped as CONVERGED before its last step
C2_Witness ==
    /\ pc = "after_loop"
    /\ Converged
    /\ i < config.MAX_STEPS - 1

(***************************************************************************)
(* C3 (as claimed): a run that returns ends in exactly one of CONVERGED    *)
(* and EXHAUSTED; it is EXHAUSTED if and only if the loop reached step     *)
(* MAX_STEPS - 1 without reaching CONVERGED.                               *)
(***************************************************************************)
C3_ExactlyOneOutcome ==
    pc = "returned" =>
        /\ Converged # Exhausted
        /\ Exhausted <=> (i = config.MAX_STEPS - 1 /\ ~Converged)

C6_PointsInUnitCube ==
    calls >= 1 =>
        \A k \in 1..Len(points) : \A d \in 1..Len(points[k]) :
            0 <= points[k][d] /\ points[k][d] < Grid

\* run_sampler has ended: it returned, or the program has exited or crashed
Terminated == pc \in {"returned", "exit", "crashed"}

\* a bound on the number of steps main has yet to take
StepsLeft ==
    CASE pc = "get_constraints" -> config.MAX_STEPS + 4
      [] pc = "make_points_array" -> config.MAX_STEPS + 3
      [] pc = "for" -> config.MAX_STEPS - i + 1
      [] pc = "after_loop" -> 1
      [] OTHER -> 0

\* some action of main can be taken: outside the loop the next statement
\* runs unconditionally; in the loop either range(max_steps) is exhausted
\* or run_step has draws to take
CanStep ==
    \/ pc \in {"get_constraints", "make_points_array", "after_loop"}
    \/ pc = "for" /\ (in_range(i + 1, config.MAX_STEPS) => Draws # {})

(***************************************************************************)
(* C7: every run of run_sampler with MAX_STEPS >= 1 terminates, after at   *)
(* most MAX_STEPS calls of run_step, whatever the oracle, the draws and    *)
(* the acceptances; it ends by returning, as CONVERGED or as EXHAUSTED,    *)
(* and what it returns is the current ensemble.  Termination is stated by  *)
(* a variant: every step lowers StepsLeft, a natural number, and a run     *)
(* that has not ended has a step to take.                                  *)
(***************************************************************************)
C7_TerminatesWithinBudget ==
    /\ [](calls <= config.MAX_STEPS)
    /\ [](config.MAX_STEPS >= 1 => pc # "crashed")
    /\ [](pc = "returned" => result = points /\ (Converged \/ Exhausted))
    /\ [](StepsLeft >= 0 /\ (~Terminated => CanStep))
    /\ [][StepsLeft' < StepsLeft]_vars

\* a run that used its whole budget of steps, more than one, and returned
C7_Witness ==
    /\ pc = "returned"
    /\ config.MAX_STEPS > 1
    /\ calls = config.MAX_STEPS
    /\ result = points
    /\ \E k \in 1..Len(points) : points[k] # hyperspace.example

(***************************************************************************)
(* C8: the convergence monitor reports "not stable" at every index below   *)
(* 2*CHECK_STEPS, whatever the history holds; hence no run stops as        *)
(* CONVERGED at a step below 2*CHECK_STEPS.                                *)
(***************************************************************************)
C8_NotStableBeforeTwoWindows ==
    Sampling =>
        /\ \A j \in 0..(2 * config.CHECK_STEPS - 1) :
              /\ ~sampler_stable(j, pos_mean, pos_std)
              /\ \A d \in 1..hyperspace.ndim :
                    /\ ~array_stable(j, config.CHECK_STEPS, Transposed(pos_mean, d))
                    /\ ~array_stable(j, config.CHECK_STEPS, Transposed(pos_std, d))
        /\ Converged => i >= 2 * config.CHECK_STEPS

\* the first check of a run with windows of two steps: the step size was
\* left as it was and the history moved, and the run went on
C8_Witness ==
    /\ pc = "for"
    /\ config.CHECK_STEPS = 2
    /\ i = config.CHECK_STEPS
    /\ ~step_mod
    /\ pos_mean[1] # pos_mean[2]
    /\ ~Converged

(***************************************************************************)
(* C4 (as claimed): array_stable(index, CHECK_STEPS, A) returns "stable"   *)
(* for every array A that is constant and every index with                 *)
(* 2*CHECK_STEPS <= index <= len(A) - 1.  Checked under SpecStable.        *)
(***************************************************************************)
C4_ConstantArrayStable ==
    (/\ pc = "probed"
     /\ \A j \in DOMAIN probe.A : probe.A[j] = probe.A[0]
     /\ 2 * probe.num_steps <= probe.index
     /\ probe.index <= ALen(probe.A) - 1)
        => probe.ret = TRUE

\* the factor the step size is changed by: the configured one when it is
\* in (0,1], and 1 otherwise
FactorInUse ==
    IF RLt(Zero, config.STEP_SIZE_FACTOR) /\ RLe(config.STEP_SIZE_FACTOR, One)
    THEN config.STEP_SIZE_FACTOR
    ELSE One

AcceptsAll == hyperspace.kind = "all"

\* the step with index i + 1 of the loop is taken
LoopStep == pc = "for" /\ i' = i + 1

(***************************************************************************)
(* C11 (as claimed): with an oracle that accepts every candidate, the      *)
(* acceptance rate of every step is 1; at a check the controller divides   *)
(* the step size by the factor and reports "modified" as long as           *)
(* stepSize/factor < 1; the step size stays below 1; and once the step     *)
(* size has plateaued the controller no longer adjusts it: at a check that *)
(* leaves the step size as it was it reports "not modified", and after a   *)
(* check that reported "not modified" every later check does so too.       *)
(***************************************************************************)
C11_GrowsThenPlateaus ==
    [][(AcceptsAll /\ LoopStep) =>
          /\ accept_rate'[i'] = One
          /\ RLt(step_size', One)
          /\ evaluate_sampler(i') =>
                /\ IF RLt(RDiv(step_size, FactorInUse), One)
                   THEN step_size' = RDiv(step_size, FactorInUse) /\ step_mod'
                   ELSE step_size' = step_size /\ ~step_mod'
                /\ step_size' = step_size => ~step_mod'
                /\ (i >= config.CHECK_STEPS /\ ~step_mod) => ~step_mod']_vars

\* the example point as the input file gives it does not have ndim
\* coordinates, or the oracle rejects it, or the oracle raises on it
BadExample ==
    /\ ~Raised
    /\ \/ file = "cut"
       \/ Len(hyperspace.example) # hyperspace.ndim
       \/ apply_raises(hyperspace, hyperspace.example)
       \/ ~apply(hyperspace, hyperspace.example)

(***************************************************************************)
(* C12 (as claimed): if the example point has the wrong dimensionality     *)
(* (fewer or more coordinates than the oracle's dimension count), or fails *)
(* the oracle, or the validation call of the oracle raises, the program    *)
(* exits with an error message before any call of run_step: it never       *)
(* leaves get_constraints but by exiting.                                  *)
(***************************************************************************)
C12_BadExampleExitsBeforeSampling ==
    BadExample =>
        /\ calls = 0
        /\ pc \in {"get_constraints", "exit"}
        /\ pc = "exit" => \E m \in printed : m = get_constraints_error /\ m # ""

(***************************************************************************)
(* C13: the acceptance rate run_step returns, the entry the step writes to *)
(* accept_rate, is the number of chains whose candidate the oracle         *)
(* accepted in this call divided by the number N >= 1 of chains, and so    *)
(* lies in [0,1], whatever the oracle answers.                             *)
(***************************************************************************)
C13_RateIsAcceptedFraction ==
    [][LoopStep =>
          /\ Len(points) >= 1
          /\ RLe(Zero, accept_rate'[i']) /\ RLe(accept_rate'[i'], One)
          /\ \E draw \in Draws :
                LET accepted == {k \in 1..Len(points) :
                                    apply(hyperspace, new_vec(points, draw, k))}
                IN  /\ \A k \in 1..Len(points) :
                          points'[k] = IF k \in accepted
                                       THEN new_vec(points, draw, k)
                                       ELSE points[k]
                    /\ accept_rate'[i'] =
                          Rat(Cardinality(accepted), Len(points))]_vars

\* a run of two chains in which a step accepted no candidate, a step one
\* of the two and a step both
C13_Witness ==
    /\ Sampling
    /\ calls >= 3
    /\ Len(points) = 2
    /\ \E a, b, c \in 0..i :
          /\ accept_rate[a] = Zero
          /\ accept_rate[b] = <<1, 2>>
          /\ accept_rate[c] = One

\* the number of chains a request of n_results gives
ChainCount == IF n_results < 1 THEN 1 ELSE n_results

(***************************************************************************)
(* C14: a requested ensemble size below 1 does not abort the run; the      *)
(* ensemble is initialized with 1 chain if the requested size is below 1   *)
(* and with n chains for a request of n >= 1, each equal to the example    *)
(* point; the number of chains and the number of coordinates of each chain *)
(* never change during the run, so run_step is never called with N = 0.    *)
(***************************************************************************)
C14_EnsembleSizeFixed ==
    /\ [](Sampling =>
             /\ Len(points) = ChainCount
             /\ Len(points) >= 1
             /\ \A k \in 1..Len(points) : Len(points[k]) = hyperspace.ndim)
    /\ []((pc = "for" /\ i = Unbound) =>
             \A k \in 1..Len(points) : points[k] = hyperspace.example)
    /\ [](pc = "exit" => get_constraints_error # "")
    /\ [][Sampling =>
             /\ Len(points') = Len(points)
             /\ \A k \in 1..Len(points) : Len(points'[k]) = Len(points[k])]_vars

\* a run asked for no chain has returned one chain after two or more steps
C14_Witness ==
    /\ pc = "returned"
    /\ n_results = 0
    /\ calls >= 2
    /\ Len(result) = 1
    /\ "Error: n_results is negative -- 1 output will be produced" \in printed

(***************************************************************************)
(* C15: in a call of run_step a chain whose candidate the oracle rejects   *)
(* keeps its point, a chain whose candidate is accepted takes the          *)
(* candidate, and what a chain's slot holds after the call depends on its  *)
(* own point and candidate only; hence with an oracle that rejects every   *)
(* candidate every chain holds its initial point at every step, no move is *)
(* ever counted, and the recorded means do not change.                     *)
(***************************************************************************)
C15_RejectedChainsKeepTheirPoint ==
    /\ [][LoopStep =>
             \E draw \in Draws : \A k \in 1..Len(points) :
                LET candidate == new_vec(points, draw, k)
                IN  IF apply(hyperspace, candidate)
                    THEN points'[k] = candidate
                    ELSE points'[k] = points[k]]_vars
    /\ []((Sampling /\ hyperspace.kind = "isolated") =>
             /\ \A k \in 1..Len(points) : points[k] = hyperspace.example
             /\ \A j \in 0..i :
                   /\ accept_rate[j] = Zero
                   /\ pos_mean[j] = pos_mean[0])

\* a step of two chains accepted the candidate of one and rejected that of
\* the other, which stays where it started
C15_Witness ==
    /\ Sampling
    /\ calls >= 2
    /\ Len(points) = 2
    /\ accept_rate[i] = <<1, 2>>
    /\ \E k \in 1..2 : points[k] = hyperspace.example /\ points[3 - k] # hyperspace.example

\* the configured factor is outside (0,1]
FactorOutside ==
    RLe(config.STEP_SIZE_FACTOR, Zero) \/ RLt(One, config.STEP_SIZE_FACTOR)

(***************************************************************************)
(* C16: with a configured factor outside (0,1] (factor <= 0 or factor > 1) *)
(* every call of modify_step_size returns, and the step size it returns is *)
(* the step size it was given, whatever the index and the acceptance       *)
(* rates; so over a sequence of calls the step size keeps the value the    *)
(* sequence started with.  Checked under SpecCtl.                          *)
(***************************************************************************)
C16_InvalidFactorIsNoOp ==
    (probe.calls >= 1 /\ FactorOutside) =>
        /\ probe.step_size = probe.given
        /\ probe.step_size = probe.start

\* with the factor 0, a second call that saw a rate above the band has
\* returned the step size the first call was given
C16_Witness ==
    /\ probe.fn = "modify_step_size"
    /\ probe.calls = 2
    /\ config.STEP_SIZE_FACTOR = Zero
    /\ probe.index >= config.CHECK_STEPS
    /\ RLt(MAX_ACCEPT_RATE, probe.rate)
    /\ probe.step_size = probe.start

(***************************************************************************)
(* C17: modify_step_size and sampler_stable are called only at steps j     *)
(* with j > 0 and j mod CHECK_STEPS = 0.  A step at any other index leaves *)
(* the step size and the "modified" flag as they were, writes no message   *)
(* and stays in the loop; a step at a check index leaves the step size as  *)
(* it was, or multiplies it once by the factor in use, or divides it once  *)
(* by it.                                                                  *)
(***************************************************************************)
C17_ChecksOnlyAtCheckSteps ==
    [][LoopStep =>
          IF i' > 0 /\ i' % config.CHECK_STEPS = 0
          THEN step_size' \in {step_size,
                               RMul(step_size, FactorInUse),
                               RDiv(step_size, FactorInUse)}
          ELSE /\ step_size' = step_size
               /\ step_mod' = step_mod
               /\ printed' = printed
               /\ pc' = "for"]_vars

\* with checks every two steps, the step with index 3 has left alone the
\* step size that the check at step 2 had changed
C17_Witness ==
    /\ pc = "for"
    /\ config.CHECK_STEPS = 2
    /\ i = 3
    /\ step_mod
    /\ step_size # config.INIT_STEP_SIZE

\* the three series of the history
History == <<pos_mean, pos_std, accept_rate>>

(***************************************************************************)
(* C18: the history is append-only.  The step with index j writes the      *)
(* entries at index j of pos_mean, pos_std and accept_rate: the mean and   *)
(* the standard deviation of the ensemble as run_step left it, and the     *)
(* acceptance rate run_step returned.  It changes no other entry, no other *)
(* statement of the run changes any entry, and the entries after the last  *)
(* step's index are still the zeros they were allocated as.                *)
(***************************************************************************)
C18_HistoryAppendOnly ==
    /\ [][LoopStep =>
             /\ pos_mean'[i'] = calc_pos_mean(points')
             /\ pos_std'[i'] = calc_std_mean(points')
             /\ \E draw \in Draws :
                   /\ points' = run_step(points, hyperspace, draw).points
                   /\ accept_rate'[i'] =
                         run_step(points, hyperspace, draw).acceptance_rate
             /\ DOMAIN pos_mean' = DOMAIN pos_mean
             /\ DOMAIN pos_std' = DOMAIN pos_std
             /\ DOMAIN accept_rate' = DOMAIN accept_rate
             /\ \A j \in DOMAIN accept_rate : j # i' =>
                   /\ pos_mean'[j] = pos_mean[j]
                   /\ pos_std'[j] = pos_std[j]
                   /\ accept_rate'[j] = accept_rate[j]]_vars
    /\ [][(pc \in {"for", "after_loop"} /\ ~LoopStep) => History' = History]_vars
    /\ [](Sampling =>
             \A j \in DOMAIN accept_rate : j > i =>
                /\ accept_rate[j] = Zero
                /\ pos_mean[j] = [d \in 1..hyperspace.ndim |-> Zero]
                /\ pos_std[j] = [d \in 1..hyperspace.ndim |-> Zero])

\* a run has returned after three or more steps, and the history still
\* holds the different means and rates its first steps recorded
C18_Witness ==
    /\ pc = "returned"
    /\ calls >= 3
    /\ pos_mean[0] # pos_mean[1]
    /\ pos_mean[1] # pos_mean[2]
    /\ accept_rate[0] # accept_rate[1]
    /\ pos_std[0] # pos_std[1]

\* x to the power n, n >= 0
RECURSIVE RPow(_, _)
RPow(x, n) == IF n = 0 THEN One ELSE RMul(x, RPow(x, n - 1))

\* at every check so far the average acceptance rate was below the band
AllChecksLow ==
    \A j \in 1..i : evaluate_sampler(j) => RLt(RecentRate(j), MIN_ACCEPT_RATE)

C20_WindowsAreWritten ==
    (Sampling /\ i # Unbound /\ evaluate_sampler(i)) =>
        LET W == config.CHECK_STEPS
            ctl == ControllerWindow(i)
            mon == MonitorWindows(i, W, Transposed(pos_mean, 1))
            dev == MonitorWindows(i, W, Transposed(pos_std, 1))
        IN  /\ calls = i + 1
            /\ ctl = (i - W + 1)..i
            /\ Cardinality(ctl) = W
            /\ ctl \subseteq 1..i
            /\ dev = mon
            /\ IF i >= 2 * W
               THEN /\ mon[1] = (i - W + 1)..i
                    /\ mon[2] = (i - 2 * W + 1)..(i - W)
                    /\ Cardinality(mon[1]) = W
                    /\ Cardinality(mon[2]) = W
                    /\ mon[1] \cap mon[2] = {}
                    /\ \A a \in mon[2] : \A b \in mon[1] : a < b
                    /\ (mon[1] \cup mon[2]) = (i - 2 * W + 1)..i
                    /\ (mon[1] \cup mon[2]) \subseteq 1..i
               ELSE mon = <<{}, {}>>

\* the check at step 4 of a run with windows of two steps: A1 is the steps
\* 3 and 4, A2 the steps 1 and 2
C20_Witness ==
    /\ Sampling
    /\ config.CHECK_STEPS = 2
    /\ i = 4
    /\ MonitorWindows(i, 2, Transposed(pos_mean, 1)) = <<{3, 4}, {1, 2}>>
    /\ ControllerWindow(i) = {3, 4}

==========================================================================
